---- MODULE Spec2Model ----
(***************************************************************************)
(* Model of app.py: the Parquet loader/aggregator (load_item_data), the    *)
(* module-level snapshot (PI_DATA, UNIQUE_LOCATIONS, UNIQUE_UNITS), the     *)
(* Gemini client initialisation and the three Flask routes.                *)
(*                                                                         *)
(* Encoding of values                                                      *)
(*   - a string is the sequence of its code points ("KL" is <<75, 76>>);   *)
(*   - a table cell is <<>> when it is null (None/NaN) and <<v>> when it   *)
(*     holds the value v;                                                  *)
(*   - an input price is a whole number of eighths (40 is 5.00, 1 is       *)
(*     0.125): such prices and their sums are exact binary floats; the     *)
(*     quotient sum / count and its product with 100 are rounded to        *)
(*     doubles, which round2 follows where it decides the result;          *)
(*   - an output price is a whole number of hundredths (600 is 6.00).      *)
(***************************************************************************)
EXTENDS Integers, Sequences, FiniteSets, TLC

VARIABLES
    src,               \* the Parquet file on disk: [exists, readable, columns, rows]
    client_raises,     \* environment: whether genai.Client(api_key=...) raises
    phase,             \* "boot" before the module is imported, then "serving" | "crashed"
    gemini_client,     \* "Client" | "None"
    PI_DATA,           \* the aggregated records
    UNIQUE_LOCATIONS,  \* sorted distinct locations
    UNIQUE_UNITS,      \* sorted distinct units
    load_log,          \* which branch of load_item_data printed its line
    loads,             \* number of runs of load_item_data
    req                \* the requests: id -> request record

vars == <<src, client_raises, phase, gemini_client, PI_DATA, UNIQUE_LOCATIONS,
          UNIQUE_UNITS, load_log, loads, req>>

----------------------------------------------------------------------------
(* Bounds *)

MaxRows == 3

NReq == 2

----------------------------------------------------------------------------
(* Column names, lines 18-21 *)

COL_ITEM_NAME == "subsubcategory"

COL_PRICE == "avg_price"

COL_LOCATION == "location"

COL_UNIT == "unit_raw"

RequiredColumns == {COL_ITEM_NAME, COL_LOCATION, COL_UNIT, COL_PRICE}

----------------------------------------------------------------------------
(* Strings *)

\* The code points str.strip() removes (those with str.isspace()): \t \n \v
\* \f \r, the separators FS GS RS US, space, NEL, NBSP and the Unicode spaces
IsSpace(c) ==
    c \in (9..13) \cup (28..32) \cup {133, 160, 5760} \cup (8192..8202)
              \cup {8232, 8233, 8239, 8287, 12288}

RECURSIVE lstrip(_)
lstrip(s) == IF s # <<>> /\ IsSpace(Head(s)) THEN lstrip(Tail(s)) ELSE s

RECURSIVE rstrip(_)
rstrip(s) ==
    IF s # <<>> /\ IsSpace(s[Len(s)]) THEN rstrip(SubSeq(s, 1, Len(s) - 1)) ELSE s

\* str.strip()
strip(s) == rstrip(lstrip(s))

\* a < b for two str: code point by code point, a proper prefix first
RECURSIVE StrLess(_, _)
StrLess(a, b) ==
    IF b = <<>> THEN FALSE
    ELSE IF a = <<>> THEN TRUE
    ELSE IF Head(a) # Head(b) THEN Head(a) < Head(b)
    ELSE StrLess(Tail(a), Tail(b))

\* sorted(xs, reverse=True)
RECURSIVE sorted_reverse(_)
sorted_reverse(S) ==
    IF S = {} THEN <<>>
    ELSE LET m == CHOOSE x \in S : \A y \in S \ {x} : StrLess(y, x)
         IN  <<m>> \o sorted_reverse(S \ {m})

\* sorted(xs) for a list of distinct str
RECURSIVE sorted(_)
sorted(S) ==
    IF S = {} THEN <<>>
    ELSE LET m == CHOOSE x \in S : \A y \in S \ {x} : StrLess(x, y)
         IN  <<m>> \o sorted(S \ {m})

----------------------------------------------------------------------------
(* Cells and rows *)

Null == <<>>

Val(v) == <<v>>

isna(cell) == cell = Null

\* The cell of row for column col
Cell(row, col) ==
    IF col = COL_ITEM_NAME THEN row.name
    ELSE IF col = COL_LOCATION THEN row.location
    ELSE IF col = COL_UNIT THEN row.unit
    ELSE row.price

\* df.dropna(subset=[...]): the rows where none of the four cells is null
dropna(rows) ==
    SelectSeq(rows, LAMBDA row : \A col \in RequiredColumns : ~isna(Cell(row, col)))

\* df[df[COL_ITEM_NAME].astype(str) != '']: the strip() forgotten
NameNotEmpty(rows) == SelectSeq(rows, LAMBDA row : row.name[1] # <<>>)

\* The blank test on the name, the location and the unit
NoneBlank(rows) ==
    SelectSeq(rows, LAMBDA row : /\ strip(row.name[1]) # <<>>
                                 /\ strip(row.location[1]) # <<>>
                                 /\ strip(row.unit[1]) # <<>>)

\* df[df[COL_ITEM_NAME].astype(str).str.strip() != '']
NameNotBlank(rows) == SelectSeq(rows, LAMBDA row : strip(row.name[1]) # <<>>)

----------------------------------------------------------------------------
(* groupby(...).mean(), round(2) *)

\* The group key of a row: (location, unit, name)
GroupKey(row) == <<row.location[1], row.unit[1], row.name[1]>>

\* k1 < k2 for two group keys, level by level
KeyLess(k1, k2) ==
    \/ StrLess(k1[1], k2[1])
    \/ k1[1] = k2[1] /\ StrLess(k1[2], k2[2])
    \/ k1[1] = k2[1] /\ k1[2] = k2[2] /\ StrLess(k1[3], k2[3])

\* The group keys in groupby's order (sort=True)
RECURSIVE SortKeys(_)
SortKeys(K) ==
    IF K = {} THEN <<>>
    ELSE LET m == CHOOSE k \in K : \A j \in K \ {k} : KeyLess(k, j)
         IN  <<m>> \o SortKeys(K \ {m})

\* The indices of the rows of a group
Members(rows, k) == {i \in DOMAIN rows : GroupKey(rows[i]) = k}

RECURSIVE SumPrices(_, _)
SumPrices(rows, I) ==
    IF I = {} THEN 0
    ELSE LET i == CHOOSE j \in I : TRUE
         IN  rows[i].price[1] + SumPrices(rows, I \ {i})

\* sum() in place of mean()
sum_of_group(rows, k) == [num |-> SumPrices(rows, Members(rows, k)), den |-> 1]

\* mean() of a group, as the exact fraction [num / den] of eighths
mean(rows, k) ==
    [num |-> SumPrices(rows, Members(rows, k)), den |-> Cardinality(Members(rows, k))]

\* floor(log2(a / b)) for a, b > 0
RECURSIVE Log2Floor(_, _)
Log2Floor(a, b) ==
    IF a >= 2 * b THEN Log2Floor(a, 2 * b) + 1
    ELSE IF a < b THEN Log2Floor(2 * a, b) - 1
    ELSE 0

\* 2^n mod q
RECURSIVE Pow2Mod(_, _)
Pow2Mod(n, q) == IF n = 0 THEN 1 % q ELSE (2 * Pow2Mod(n - 1, q)) % q

\* rint(fl(fl(x) * 100)) for the mean x = (2k + 1) / 200, whose hundredfold
\* is the tie k + 1/2.  With g = gcd(2k + 1, 25) and q = 25 / g, x is
\* ((2k + 1) / g) / (8 q).  For q = 1 the double x and the product are
\* exact and rint takes the even neighbour.  Otherwise the 53-bit double of
\* x is x + (j / q) ulp(x), j the signed distance to the nearest mantissa;
\* the product lies 25 j / (16 q) or 25 j / (32 q) ulps from the tie (the
\* tie's binade is 6 or 7 above that of x), and is rounded to the tie itself
\* when that is at most one half (the tie's mantissa is even), else to the
\* next double on the side of j.
RintOfTie(k) ==
    LET p == 2 * k + 1
        g == IF p % 25 = 0 THEN 25 ELSE IF p % 5 = 0 THEN 5 ELSE 1
        q == 25 \div g
        L == Log2Floor(p, 200)
        rem == (((p \div g) % q) * Pow2Mod(49 - L, q)) % q
        j == IF 2 * rem < q THEN 0 - rem ELSE q - rem
        ulps == IF Log2Floor(p, 2) - L = 6 THEN 16 ELSE 32
        even == IF k % 2 = 0 THEN k ELSE k + 1
    IN  IF q = 1 THEN even
        ELSE IF j > 0 /\ 50 * j > ulps * q THEN k + 1
        ELSE IF j < 0 /\ 50 * (0 - j) > ulps * q THEN k
        ELSE even

\* Series.round(2) of a mean that is not negative: rint(x * 100) / 100 on
\* the double x = sum / count, x being m.num / (8 * m.den); the result is a
\* number of hundredths.  Off a tie the nearest hundredth of the exact mean
\* is also that of the double.
RoundNonNegative(m) ==
    LET n == 25 * m.num
        d == 2 * m.den
        q == n \div d
        r == n % d
    IN  IF 2 * r < d THEN q
        ELSE IF 2 * r > d THEN q + 1
        ELSE RintOfTie(q)

\* Series.round(2); the double arithmetic is symmetric in the sign
round2(m) ==
    IF m.num < 0 THEN 0 - RoundNonNegative([num |-> 0 - m.num, den |-> m.den])
    ELSE RoundNonNegative(m)

\* The rows renamed and rounded, the groupby left out
PerRow(rows) ==
    [i \in DOMAIN rows |->
        [location |-> rows[i].location[1], unit |-> rows[i].unit[1],
         name |-> rows[i].name[1],
         price |-> round2([num |-> rows[i].price[1], den |-> 1])]]

\* grouped_df after lines 44-50, as to_dict('records') lists it
Aggregate(rows) ==
    LET keys == SortKeys({GroupKey(rows[i]) : i \in DOMAIN rows})
    IN  [i \in DOMAIN keys |->
            [location |-> keys[i][1], unit |-> keys[i][2], name |-> keys[i][3],
             price |-> round2(mean(rows, keys[i]))]]

\* grouped_df[col].unique().tolist()
unique(records, col) ==
    IF col = "location" THEN {records[i].location : i \in DOMAIN records}
    ELSE {records[i].unit : i \in DOMAIN records}

Returned(data, locations, units, log) ==
    [data |-> data, locations |-> locations, units |-> units,
     log |-> log, raised |-> FALSE]

Raised(log) ==
    [data |-> <<>>, locations |-> <<>>, units |-> <<>>, log |-> log, raised |-> TRUE]

\* load_item_data() with only the FileNotFoundError handler
load_item_data_one_handler(file) ==
    IF ~file.exists THEN Returned(<<>>, <<>>, <<>>, "FileNotFoundError")
    ELSE IF ~file.readable THEN Raised("Exception")
    ELSE IF ~(RequiredColumns \subseteq file.columns) THEN Raised("KeyError")
    ELSE LET df == NameNotBlank(dropna(file.rows))
             grouped_df == Aggregate(df)
         IN  Returned(grouped_df,
                      sorted(unique(grouped_df, "location")),
                      sorted(unique(grouped_df, "unit")),
                      "Successfully loaded")

\* load_item_data(): the three collections, the line it printed, and whether
\* an exception left the function
load_item_data(file) ==
    IF ~file.exists THEN Returned(<<>>, <<>>, <<>>, "FileNotFoundError")
    ELSE IF ~file.readable THEN Returned(<<>>, <<>>, <<>>, "Exception")
    ELSE IF ~(RequiredColumns \subseteq file.columns)
         THEN Returned(<<>>, <<>>, <<>>, "KeyError")
    ELSE LET df == NameNotBlank(dropna(file.rows))
             grouped_df == Aggregate(df)
         IN  Returned(grouped_df,
                      sorted(unique(grouped_df, "location")),
                      sorted(unique(grouped_df, "unit")),
                      "Successfully loaded")

----------------------------------------------------------------------------
(* Inputs *)

Rice == <<82, 105, 99, 101>>

SpaceRice == <<32>> \o Rice

Blank == <<32, 32>>

\* A file separator and a non-breaking space: whitespace-only as well
Separators == <<28, 160>>

Empty == <<>>

KL == <<75, 76>>

JB == <<74, 66>>

kg == <<107, 103>>

Row(name, location, unit, price) ==
    [name |-> name, location |-> location, unit |-> unit, price |-> price]

\* Prices in eighths: 5.00, 7.00 and 0.125
InputPrices == {40, 56, 1}

BaseRow == Row(Val(Rice), Val(KL), Val(kg), Val(40))

\* Rows with every cell present and a non-blank name
ValidRows ==
    {Row(Val(Rice), Val(l), Val(kg), Val(p)) : l \in {KL, JB}, p \in InputPrices}
        \cup {Row(Val(SpaceRice), Val(KL), Val(kg), Val(40))}

\* BaseRow with one cell null or blank
DefectRows ==
    {[BaseRow EXCEPT !.name = c] :
            c \in {Null, Val(Empty), Val(Blank), Val(Separators)}}
        \cup {[BaseRow EXCEPT !.location = c] : c \in {Null, Val(Empty), Val(Blank)}}
        \cup {[BaseRow EXCEPT !.unit = c] : c \in {Null, Val(Empty), Val(Blank)}}
        \cup {[BaseRow EXCEPT !.price = Null]}

Rows == ValidRows \cup DefectRows

Tables(n) == UNION {[1..k -> Rows] : k \in 0..n}

File(exists, readable, columns, rows) ==
    [exists |-> exists, readable |-> readable, columns |-> columns, rows |-> rows]

GoodFile(rows) == File(TRUE, TRUE, RequiredColumns, rows)

\* No file, a file that is not Parquet, a file without one of the columns
BadFiles ==
    {File(FALSE, FALSE, {}, <<>>), File(TRUE, FALSE, {}, <<>>)}
        \cup {File(TRUE, TRUE, RequiredColumns \ {c}, rows) :
                c \in RequiredColumns, rows \in {<<>>, <<BaseRow>>}}

\* Five rows of one group, j of them priced 5.00 and the others 0.125: for
\* j = 2 and j = 4 the mean is a tie that no double holds
LongFiles ==
    {GoodFile([i \in 1..5 |->
                  Row(Val(Rice), Val(KL), Val(kg), Val(IF i <= j THEN 40 ELSE 1))]) :
        j \in 0..5}

Files == {GoodFile(t) : t \in Tables(MaxRows)} \cup BadFiles \cup LongFiles

\* The files the server is run on
ServedFiles ==
    {File(FALSE, FALSE, {}, <<>>),
     GoodFile(<<Row(Val(Rice), Val(KL), Val(kg), Val(40)),
                Row(Val(Rice), Val(KL), Val(kg), Val(56))>>),
     GoodFile(<<Row(Val(Rice), Val(JB), Val(Empty), Val(1)),
                Row(Val(Blank), Val(KL), Val(kg), Val(40)),
                Row(Val(SpaceRice), Val(KL), Val(kg), Val(56))>>)}

Hi == <<104, 105>>

\* A POST body: not JSON, JSON that is no object, {}, {"prompt": ""},
\* {"prompt": "hi"}
Bodies ==
    {[kind |-> "malformed", prompt |-> Null], [kind |-> "nonobject", prompt |-> Null],
     [kind |-> "object", prompt |-> Null], [kind |-> "object", prompt |-> Val(Empty)],
     [kind |-> "object", prompt |-> Val(Hi)]}

NoBody == [kind |-> "none", prompt |-> Null]

\* What generate_content returns (response.text) or raises
Texts == {"answer"}

Errors == {"429 RESOURCE_EXHAUSTED"}

----------------------------------------------------------------------------
(* Requests *)

Requests == 1..NReq

NoResponse == [kind |-> "none", payload |-> <<>>]

NewRequest ==
    [pc |-> "idle", route |-> "", body |-> NoBody, user_prompt |-> Null,
     item_data_json |-> Null, system_instruction |-> Null, full_prompt |-> Null,
     calls |-> 0, remote |-> <<>>, status |-> 0, response |-> NoResponse,
     trace |-> <<>>]

\* jsonify({'response': message}), status
Reply(r, message, status, stage) ==
    [req[r] EXCEPT !.pc = "done", !.status = status,
                   !.response = [kind |-> "json", payload |-> message],
                   !.trace = @ \o <<stage>>]

Snapshot == <<PI_DATA, UNIQUE_LOCATIONS, UNIQUE_UNITS>>

----------------------------------------------------------------------------
(* Start-up: lines 25-30 and 72-73 *)

module_import ==
    /\ phase = "boot"
    /\ gemini_client' = IF client_raises THEN "None" ELSE "Client"
    /\ LET loaded == load_item_data(src)
       IN  /\ PI_DATA' = loaded.data
           /\ UNIQUE_LOCATIONS' = loaded.locations
           /\ UNIQUE_UNITS' = loaded.units
           /\ load_log' = loaded.log
           /\ phase' = IF loaded.raised THEN "crashed" ELSE "serving"
    /\ loads' = loads + 1
    /\ UNCHANGED <<src, client_raises, req>>

----------------------------------------------------------------------------
(* Routes *)

\* A request arrives and Flask routes it
receive(r) ==
    /\ phase = "serving"
    /\ req[r].pc = "idle"
    /\ \E in \in ({[route |-> "/", body |-> NoBody], [route |-> "/chatbot", body |-> NoBody]}
                   \cup {[route |-> "/api/chat", body |-> b] : b \in Bodies}) :
          req' = [req EXCEPT ![r] = [@ EXCEPT !.pc = "received", !.route = in.route,
                                                 !.body = in.body,
                                                 !.trace = <<"RECEIVED">>]]
    /\ UNCHANGED <<src, client_raises, phase, gemini_client, PI_DATA,
                   UNIQUE_LOCATIONS, UNIQUE_UNITS, load_log, loads>>

\* GET / running load_item_data() again for the page
index_reload(r) ==
    /\ req[r].pc = "received"
    /\ req[r].route = "/"
    /\ LET loaded == load_item_data(src)
       IN  /\ PI_DATA' = loaded.data
           /\ UNIQUE_LOCATIONS' = loaded.locations
           /\ UNIQUE_UNITS' = loaded.units
           /\ load_log' = loaded.log
           /\ req' = [req EXCEPT ![r] =
                        [@ EXCEPT !.pc = "done", !.status = 200,
                                  !.response =
                                      [kind |-> "index.html",
                                       payload |-> [item_data |-> loaded.data,
                                                    locations |-> loaded.locations,
                                                    units |-> loaded.units]]]]
    /\ loads' = loads + 1
    /\ UNCHANGED <<src, client_raises, phase, gemini_client>>

\* GET /
index(r) ==
    /\ req[r].pc = "received"
    /\ req[r].route = "/"
    /\ req' = [req EXCEPT ![r] =
                 [@ EXCEPT !.pc = "done", !.status = 200,
                           !.response =
                               [kind |-> "index.html",
                                payload |-> [item_data |-> PI_DATA,
                                             locations |-> UNIQUE_LOCATIONS,
                                             units |-> UNIQUE_UNITS]]]]
    /\ UNCHANGED <<src, client_raises, phase, gemini_client, PI_DATA,
                   UNIQUE_LOCATIONS, UNIQUE_UNITS, load_log, loads>>

\* GET /chatbot
chatbot_page(r) ==
    /\ req[r].pc = "received"
    /\ req[r].route = "/chatbot"
    /\ req' = [req EXCEPT ![r] =
                 [@ EXCEPT !.pc = "done", !.status = 200,
                           !.response = [kind |-> "chatbot.html", payload |-> <<>>]]]
    /\ UNCHANGED <<src, client_raises, phase, gemini_client, PI_DATA,
                   UNIQUE_LOCATIONS, UNIQUE_UNITS, load_log, loads>>

\* `not x` for a str or None
Falsy(cell) == cell = Null \/ cell[1] = <<>>

\* pd.DataFrame(PI_DATA).to_json(orient='records'): per record the
\* (column, value) pairs in column order
to_json(records) ==
    [i \in DOMAIN records |->
        << <<"location", records[i].location>>, <<"unit", records[i].unit>>,
           <<"name", records[i].name>>, <<"price", records[i].price>> >>]

\* The system instruction, lines 108-114; only the record count varies
SystemInstruction(records) ==
    <<"You are an expert Price Intelligent (PI) assistant. ... The data has ",
      Len(records), " entries.", "..." >>

\* The full prompt, lines 117-121
FullPrompt(item_data_json, user_prompt) ==
    <<"Data for analysis (JSON Array of Objects):", item_data_json,
      "User Question:", user_prompt>>

\* The client check left out
chat_api_no_client_check(r) ==
    /\ req[r].pc = "received"
    /\ req[r].route = "/api/chat"
    /\ req' = [req EXCEPT ![r] = [@ EXCEPT !.pc = "client_ok"]]
    /\ UNCHANGED <<src, client_raises, phase, gemini_client, PI_DATA,
                   UNIQUE_LOCATIONS, UNIQUE_UNITS, load_log, loads>>

\* POST /api/chat, lines 96-97: the client check
chat_api_client_check(r) ==
    /\ req[r].pc = "received"
    /\ req[r].route = "/api/chat"
    /\ req' = [req EXCEPT ![r] =
                 IF gemini_client = "None"
                 THEN Reply(r, <<"AI Client not initialized. Please check your API key and setup.">>,
                            500, "FAILED")
                 ELSE [@ EXCEPT !.pc = "client_ok"]]
    /\ UNCHANGED <<src, client_raises, phase, gemini_client, PI_DATA,
                   UNIQUE_LOCATIONS, UNIQUE_UNITS, load_log, loads>>

\* The prompt check as `user_prompt is None`
chat_api_validate_none_only(r) ==
    /\ req[r].pc = "client_ok"
    /\ req' = [req EXCEPT ![r] =
                 IF req[r].body.kind = "malformed"
                 THEN [@ EXCEPT !.pc = "done", !.status = 400,
                                !.response = [kind |-> "error", payload |-> <<"BadRequest">>],
                                !.trace = @ \o <<"FAILED">>]
                 ELSE IF req[r].body.kind = "nonobject"
                 THEN [@ EXCEPT !.pc = "done", !.status = 500,
                                !.response = [kind |-> "error", payload |-> <<"AttributeError">>],
                                !.trace = @ \o <<"FAILED">>]
                 ELSE IF req[r].body.prompt = Null
                 THEN [Reply(r, <<"No prompt provided.">>, 400, "FAILED")
                          EXCEPT !.user_prompt = req[r].body.prompt]
                 ELSE [@ EXCEPT !.pc = "validated", !.user_prompt = req[r].body.prompt,
                                !.trace = @ \o <<"VALIDATED">>]]
    /\ UNCHANGED <<src, client_raises, phase, gemini_client, PI_DATA,
                   UNIQUE_LOCATIONS, UNIQUE_UNITS, load_log, loads>>

\* Lines 99-101: request.json.get('prompt') and the prompt check.  A body
\* that is not JSON makes request.json raise BadRequest (400); a JSON body
\* that is no object has no get (AttributeError, 500).
chat_api_validate(r) ==
    /\ req[r].pc = "client_ok"
    /\ req' = [req EXCEPT ![r] =
                 IF req[r].body.kind = "malformed"
                 THEN [@ EXCEPT !.pc = "done", !.status = 400,
                                !.response = [kind |-> "error", payload |-> <<"BadRequest">>],
                                !.trace = @ \o <<"FAILED">>]
                 ELSE IF req[r].body.kind = "nonobject"
                 THEN [@ EXCEPT !.pc = "done", !.status = 500,
                                !.response = [kind |-> "error", payload |-> <<"AttributeError">>],
                                !.trace = @ \o <<"FAILED">>]
                 ELSE IF Falsy(req[r].body.prompt)
                 THEN [Reply(r, <<"No prompt provided.">>, 400, "FAILED")
                          EXCEPT !.user_prompt = req[r].body.prompt]
                 ELSE [@ EXCEPT !.pc = "validated", !.user_prompt = req[r].body.prompt,
                                !.trace = @ \o <<"VALIDATED">>]]
    /\ UNCHANGED <<src, client_raises, phase, gemini_client, PI_DATA,
                   UNIQUE_LOCATIONS, UNIQUE_UNITS, load_log, loads>>

\* Lines 103-121: the data as JSON, the system instruction, the full prompt
chat_api_build_prompt(r) ==
    /\ req[r].pc = "validated"
    /\ req' = [req EXCEPT ![r] =
                 [@ EXCEPT !.pc = "prompt_built",
                           !.item_data_json = Val(to_json(PI_DATA)),
                           !.system_instruction = Val(SystemInstruction(PI_DATA)),
                           !.full_prompt =
                               Val(FullPrompt(to_json(PI_DATA), req[r].user_prompt[1])),
                           !.trace = @ \o <<"PROMPT_BUILT">>]]
    /\ UNCHANGED <<src, client_raises, phase, gemini_client, PI_DATA,
                   UNIQUE_LOCATIONS, UNIQUE_UNITS, load_log, loads>>

\* Lines 123-131: the call of gemini_client.models.generate_content goes out
chat_api_generate_content(r) ==
    /\ req[r].pc = "prompt_built"
    /\ req' = [req EXCEPT ![r] =
                 [@ EXCEPT !.pc = "dispatched", !.calls = @ + 1,
                           !.trace = @ \o <<"DISPATCHED">>]]
    /\ UNCHANGED <<src, client_raises, phase, gemini_client, PI_DATA,
                   UNIQUE_LOCATIONS, UNIQUE_UNITS, load_log, loads>>

\* Line 133: the call returned, the text is the response
chat_api_return(r) ==
    /\ req[r].pc = "dispatched"
    /\ \E text \in Texts :
          req' = [req EXCEPT ![r] =
                    [Reply(r, <<text>>, 200, "SUCCEEDED")
                        EXCEPT !.remote = <<"returned", text>>]]
    /\ UNCHANGED <<src, client_raises, phase, gemini_client, PI_DATA,
                   UNIQUE_LOCATIONS, UNIQUE_UNITS, load_log, loads>>

\* The except branch calling generate_content once more
chat_api_except_retry(r) ==
    /\ req[r].pc = "dispatched"
    /\ \E e \in Errors :
          req' = [req EXCEPT ![r] =
                    [@ EXCEPT !.calls = @ + 1, !.remote = <<"raised", e>>,
                              !.trace = @ \o <<"DISPATCHED">>]]
    /\ UNCHANGED <<src, client_raises, phase, gemini_client, PI_DATA,
                   UNIQUE_LOCATIONS, UNIQUE_UNITS, load_log, loads>>

\* Lines 135-137: the call raised, the message carries the error
chat_api_except(r) ==
    /\ req[r].pc = "dispatched"
    /\ \E e \in Errors :
          req' = [req EXCEPT ![r] =
                    [Reply(r, <<"Sorry, there was an error processing your request: ", e>>,
                           500, "FAILED")
                        EXCEPT !.remote = <<"raised", e>>]]
    /\ UNCHANGED <<src, client_raises, phase, gemini_client, PI_DATA,
                   UNIQUE_LOCATIONS, UNIQUE_UNITS, load_log, loads>>

----------------------------------------------------------------------------
(* Specifications *)

Boot(files) ==
    /\ src \in files
    /\ client_raises \in BOOLEAN
    /\ phase = "boot"
    /\ gemini_client = "None"
    /\ PI_DATA = <<>>
    /\ UNIQUE_LOCATIONS = <<>>
    /\ UNIQUE_UNITS = <<>>
    /\ load_log = ""
    /\ loads = 0
    /\ req = [r \in Requests |-> NewRequest]

\* The server on a few files
Init == Boot(ServedFiles)

Next ==
    \/ module_import
    \/ \E r \in Requests : receive(r)
    \/ \E r \in Requests : index(r)
    \/ \E r \in Requests : chatbot_page(r)
    \/ \E r \in Requests : chat_api_client_check(r)
    \/ \E r \in Requests : chat_api_validate(r)
    \/ \E r \in Requests : chat_api_build_prompt(r)
    \/ \E r \in Requests : chat_api_generate_content(r)
    \/ \E r \in Requests : chat_api_return(r)
    \/ \E r \in Requests : chat_api_except(r)

Spec == Init /\ [][Next]_vars

\* The loader on every file of up to MaxRows rows
InitLoad == Boot(Files)

NextLoad == module_import

SpecLoad == InitLoad /\ [][NextLoad]_vars

----------------------------------------------------------------------------
(* Vocabulary of the properties, stated without the loader's own operators *)

Loaded == phase = "serving" /\ load_log = "Successfully loaded"

\* Empty or whitespace-only
IsBlank(s) == \A i \in DOMAIN s : IsSpace(s[i])

\* A cell of the row is null
HasNull(row) ==
    row.name = Null \/ row.price = Null \/ row.location = Null \/ row.unit = Null

\* The rows the filter of step 2 drops: a null cell, or a blank item name
Excluded(row) == HasNull(row) \/ IsBlank(row.name[1])

\* The key of an aggregated record
RecordKey(rec) == <<rec.location, rec.unit, rec.name>>

\* The rows of the file that are not excluded and carry the key k
KeptWithKey(k) ==
    {i \in DOMAIN src.rows :
        /\ ~Excluded(src.rows[i])
        /\ <<src.rows[i].location[1], src.rows[i].unit[1], src.rows[i].name[1]>> = k}

\* a before b in ordinary string order
LexLess(a, b) ==
    \E k \in 1..Len(b) :
        /\ k - 1 <= Len(a)
        /\ \A j \in 1..(k - 1) : a[j] = b[j]
        /\ (k > Len(a) \/ a[k] < b[k])

StrictlyAscending(xs) == \A i \in 1..(Len(xs) - 1) : LexLess(xs[i], xs[i + 1])

Elements(xs) == {xs[i] : i \in DOMAIN xs}

\* The sequence without its i-th element
RemoveAt(xs, i) == SubSeq(xs, 1, i - 1) \o SubSeq(xs, i + 1, Len(xs))

\* The snapshot is what load_item_data returns for the file
SnapshotOf(file) ==
    LET out == load_item_data(file)
    IN  PI_DATA = out.data /\ UNIQUE_LOCATIONS = out.locations /\ UNIQUE_UNITS = out.units

ChatRequests == {r \in Requests : req[r].route = "/api/chat"}

\* The body is a JSON object whose prompt is missing or empty
PromptMissing(r) == req[r].body.kind = "object" /\ Falsy(req[r].body.prompt)

\* The body is a JSON object with a non-empty prompt
PromptGiven(r) == req[r].body.kind = "object" /\ ~Falsy(req[r].body.prompt)

NotInitialized ==
    [kind |-> "json",
     payload |-> <<"AI Client not initialized. Please check your API key and setup.">>]

----------------------------------------------------------------------------
(* Properties *)

\* C1: after the load, no two aggregated records have the same
\* (location, unit, name) key.
C1_UniqueKeys ==
    phase = "serving" =>
        \A i, j \in DOMAIN PI_DATA :
            i # j => RecordKey(PI_DATA[i]) # RecordKey(PI_DATA[j])

\* Three kept rows, two of them with one key, gave two records
C1_Witness ==
    /\ Loaded
    /\ Len(src.rows) = 3
    /\ \A i \in DOMAIN src.rows : ~Excluded(src.rows[i])
    /\ Len(PI_DATA) = 2

\* C2: for every key among the kept rows there is exactly one record, and its
\* price is the mean of the prices of exactly the kept rows with that key,
\* rounded to 2 decimals: in hundredths it is within one half of the mean
\* 100 * S / (8 * n), S the sum of the prices in eighths and n their number.
C2_MeanRounded ==
    Loaded =>
        \A i \in DOMAIN src.rows :
            ~Excluded(src.rows[i]) =>
                LET k == <<src.rows[i].location[1], src.rows[i].unit[1],
                           src.rows[i].name[1]>>
                    M == KeptWithKey(k)
                    S == SumPrices(src.rows, M)
                    n == Cardinality(M)
                    J == {j \in DOMAIN PI_DATA : RecordKey(PI_DATA[j]) = k}
                IN  /\ Cardinality(J) = 1
                    /\ \A j \in J :
                          /\ 2 * n * PI_DATA[j].price - 25 * S <= n
                          /\ 25 * S - 2 * n * PI_DATA[j].price <= n

\* Two Rice/KL/kg rows priced 5.00 and 7.00 gave one record priced 6.00
C2_Witness ==
    /\ Loaded
    /\ src.rows = <<Row(Val(Rice), Val(KL), Val(kg), Val(40)),
                    Row(Val(Rice), Val(KL), Val(kg), Val(56))>>
    /\ PI_DATA = <<[location |-> KL, unit |-> kg, name |-> Rice, price |-> 600]>>

\* C3: a row with a null required cell, or with an empty or whitespace-only
\* item name, contributes nothing: the snapshot is the one the file without
\* that row gives.
C3_ExcludedRowsContributeNothing ==
    Loaded =>
        \A i \in DOMAIN src.rows :
            Excluded(src.rows[i]) => SnapshotOf(GoodFile(RemoveAt(src.rows, i)))

\* A file with a row named by spaces, or by a file separator and a
\* non-breaking space, a row without price and a kept row
C3_Witness ==
    /\ Loaded
    /\ \E i \in DOMAIN src.rows :
          src.rows[i].name # Null /\ src.rows[i].name[1] \in {Blank, Separators}
    /\ \E i \in DOMAIN src.rows : src.rows[i].price = Null
    /\ Len(PI_DATA) = 1

\* C4 as stated: a row that is null or blank in any of the four cells (blank
\* location and blank unit included) is dropped, so no aggregated record and
\* no Locations/Units entry has a blank location, unit or name.
C4_Original ==
    Loaded =>
        /\ \A i \in DOMAIN PI_DATA :
              /\ ~IsBlank(PI_DATA[i].location)
              /\ ~IsBlank(PI_DATA[i].unit)
              /\ ~IsBlank(PI_DATA[i].name)
        /\ \A l \in Elements(UNIQUE_LOCATIONS) : ~IsBlank(l)
        /\ \A u \in Elements(UNIQUE_UNITS) : ~IsBlank(u)

\* C4 as amended: a row that is null in any of the four cells, or blank in
\* its item name, is dropped, so no aggregated record has a blank name; a
\* row that is blank only in its location or unit is kept: its key has a
\* record, and its location and unit are in Locations and Units.
C4_BlankNameOnly ==
    Loaded =>
        /\ \A i \in DOMAIN PI_DATA : ~IsBlank(PI_DATA[i].name)
        /\ \A i \in DOMAIN src.rows :
              LET row == src.rows[i]
              IN  IF HasNull(row) \/ IsBlank(row.name[1])
                  THEN SnapshotOf(GoodFile(RemoveAt(src.rows, i)))
                  ELSE /\ \E j \in DOMAIN PI_DATA :
                             RecordKey(PI_DATA[j])
                                 = <<row.location[1], row.unit[1], row.name[1]>>
                       /\ row.location[1] \in Elements(UNIQUE_LOCATIONS)
                       /\ row.unit[1] \in Elements(UNIQUE_UNITS)

\* A record with an empty location and one with a whitespace-only unit
C4_Witness ==
    /\ Loaded
    /\ \E j \in DOMAIN PI_DATA : PI_DATA[j].location = Empty
    /\ \E j \in DOMAIN PI_DATA : PI_DATA[j].unit = Blank
    /\ Empty \in Elements(UNIQUE_LOCATIONS)
    /\ Blank \in Elements(UNIQUE_UNITS)

\* C5: Locations and Units are strictly ascending in string order (sorted,
\* no duplicate) and hold exactly the locations and units of the aggregated
\* records.
C5_SortedDistinctFromRecords ==
    phase = "serving" =>
        /\ StrictlyAscending(UNIQUE_LOCATIONS)
        /\ StrictlyAscending(UNIQUE_UNITS)
        /\ Elements(UNIQUE_LOCATIONS) = {PI_DATA[i].location : i \in DOMAIN PI_DATA}
        /\ Elements(UNIQUE_UNITS) = {PI_DATA[i].unit : i \in DOMAIN PI_DATA}

\* Two locations listed, the empty one first, and a location that only a
\* dropped row has is not listed
C5_Witness ==
    /\ Loaded
    /\ Len(UNIQUE_LOCATIONS) = 2
    /\ UNIQUE_LOCATIONS[1] = Empty
    /\ \E i \in DOMAIN src.rows :
          /\ Excluded(src.rows[i])
          /\ src.rows[i].location # Null
          /\ src.rows[i].location[1] \notin Elements(UNIQUE_LOCATIONS)

\* C6: no exception leaves load_item_data: start-up ends serving, and with
\* the file missing, unreadable or without a required column the three
\* collections are empty.
C6_LoadNeverRaises ==
    phase # "boot" =>
        /\ phase = "serving"
        /\ (~src.exists \/ ~src.readable \/ ~(RequiredColumns \subseteq src.columns))
              => PI_DATA = <<>> /\ UNIQUE_LOCATIONS = <<>> /\ UNIQUE_UNITS = <<>>

\* A file with a valid row and no price column: serving on empty data
C6_Witness ==
    /\ phase = "serving"
    /\ load_log = "KeyError"
    /\ src.rows = <<BaseRow>>
    /\ COL_PRICE \notin src.columns
    /\ Snapshot = << <<>>, <<>>, <<>> >>

\* C7 as stated: a chat request whose prompt is missing or empty ends with a
\* 400-class response and makes no outbound call, whether or not the client
\* was initialized.
C7_Original ==
    \A r \in ChatRequests :
        PromptMissing(r) =>
            /\ req[r].calls = 0
            /\ req[r].pc = "done" => req[r].status \in 400..499

\* C7 as amended: a chat request whose body is a JSON object with the prompt
\* missing or empty makes no outbound call; it ends with the 400 response
\* "No prompt provided." when the client was initialized, and with the 500
\* "not initialized" response when it was not.
C7_MissingPromptNoCall ==
    \A r \in ChatRequests :
        PromptMissing(r) =>
            /\ req[r].calls = 0
            /\ req[r].pc \in {"received", "client_ok", "done"}
            /\ req[r].pc = "done" =>
                  IF gemini_client = "Client"
                  THEN /\ req[r].status = 400
                       /\ req[r].response
                              = [kind |-> "json", payload |-> <<"No prompt provided.">>]
                  ELSE req[r].status = 500 /\ req[r].response = NotInitialized

\* Body {} answered 400 by an initialized client
C7_Witness ==
    \E r \in ChatRequests :
        /\ req[r].body = [kind |-> "object", prompt |-> Null]
        /\ gemini_client = "Client"
        /\ req[r].pc = "done"
        /\ req[r].status = 400
        /\ req[r].calls = 0

\* C8: with gemini_client None, a chat request with a non-empty prompt never
\* gets past the client check, makes no outbound call and ends with the 500
\* "not initialized" response.
C8_UninitializedShortCircuits ==
    \A r \in ChatRequests :
        (gemini_client = "None" /\ PromptGiven(r)) =>
            /\ req[r].calls = 0
            /\ req[r].pc \in {"received", "done"}
            /\ req[r].pc = "done" =>
                  req[r].status = 500 /\ req[r].response = NotInitialized

\* Prompt "hi" answered 500 with the client None
C8_Witness ==
    \E r \in ChatRequests :
        /\ gemini_client = "None"
        /\ req[r].body.prompt = Val(Hi)
        /\ req[r].pc = "done"
        /\ req[r].status = 500

\* C9: a chat request makes at most one outbound call, and only after the
\* prompt was validated and the full prompt built; a call that failed ends
\* the request FAILED with status 500 and a message carrying the error, a
\* call that returned ends it SUCCEEDED with the response text.
C9_OneCallNoRetry ==
    \A r \in ChatRequests :
        /\ req[r].calls <= 1
        /\ req[r].calls = 1 =>
              /\ SubSeq(req[r].trace, 1, 4)
                     = <<"RECEIVED", "VALIDATED", "PROMPT_BUILT", "DISPATCHED">>
              /\ ~Falsy(req[r].user_prompt)
              /\ req[r].full_prompt # Null
        /\ req[r].remote # <<>> =>
              /\ req[r].pc = "done"
              /\ req[r].calls = 1
              /\ IF req[r].remote[1] = "raised"
                 THEN /\ req[r].status = 500
                      /\ req[r].trace[Len(req[r].trace)] = "FAILED"
                      /\ req[r].response.kind = "json"
                      /\ req[r].response.payload[Len(req[r].response.payload)]
                             = req[r].remote[2]
                 ELSE /\ req[r].status = 200
                      /\ req[r].trace[Len(req[r].trace)] = "SUCCEEDED"
                      /\ req[r].response
                             = [kind |-> "json", payload |-> <<req[r].remote[2]>>]
        /\ (req[r].pc = "done" /\ req[r].remote = <<>>) => req[r].calls = 0

\* One request failed by the remote call, another answered by it
C9_Witness ==
    \E r, q \in ChatRequests :
        /\ req[r].pc = "done" /\ req[r].remote # <<>> /\ req[r].remote[1] = "raised"
        /\ req[r].status = 500 /\ req[r].calls = 1
        /\ req[q].pc = "done" /\ req[q].remote # <<>> /\ req[q].remote[1] = "returned"
        /\ req[q].status = 200 /\ req[q].calls = 1

\* C10: load_item_data ran once, at start-up, and whatever the requests did
\* the three collections are the ones that load produced.
C10_SnapshotImmutable ==
    phase = "serving" => loads = 1 /\ SnapshotOf(src)

\* A page served and a chat request failed, on loaded data
C10_Witness ==
    /\ PI_DATA # <<>>
    /\ \E r, q \in Requests :
          /\ req[r].route = "/" /\ req[r].pc = "done"
          /\ req[q].route = "/api/chat" /\ req[q].pc = "done" /\ req[q].status = 500

====
